---- MODULE Spec2Model ----
(***************************************************************************)
(* Model of the Todo HTTP service (src/main.py): the "todo" collection of  *)
(* the document store and the handlers list_todos, create_todo,            *)
(* update_todo and delete_todo.                                            *)
(*                                                                         *)
(* Values.  A document is a function from field names to values (a Python  *)
(* dict); a field may be absent from its domain.  An optional value (a     *)
(* Python value that may be None) is a tuple: <<>> is None, <<v>> is v.    *)
(* An ObjectId is the tuple of its OidLen hex digits (numbers 0..15); an   *)
(* identifier in a URL path is a tuple of one-character strings.           *)
(***************************************************************************)
EXTENDS Integers, Sequences, FiniteSets, TLC

\* store    the "todo" collection: its documents in natural order
\* now      the reading of the clock (datetime.now)
\* nextId   the counter of the ObjectId generator
\* updated  the ids of the stored documents an update has matched (history)
\* pending  the updates between their update_one and their find_one
\* req,resp the request just served and its response, until the framework
\*          has written the response (Respond); one response is observed
\*          at a time
VARIABLES store, now, nextId, updated, pending, req, resp

vars == <<store, now, nextId, updated, pending, req, resp>>

\* ------------------------------------------------------------------ bounds
MaxTodos == 2       \* documents created in one behaviour
MaxClock == 2       \* last reading of the clock
MaxPending == 1     \* updates in flight between their merge and re-read
FirstId == 10       \* counter part of the first generated ObjectId

\* --------------------------------------------------------------- constants
OidLen == 24        \* hex digits of an ObjectId's string form

Titles == {"", "A"}          \* titles a create request may carry
UpdateTitles == {"A"}        \* titles an update request may carry

\* ------------------------------------------------------------ identifiers
HexLower == <<"0","1","2","3","4","5","6","7","8","9","a","b","c","d","e","f">>
HexUpper == <<"0","1","2","3","4","5","6","7","8","9","A","B","C","D","E","F">>

HexChars == {HexLower[i] : i \in 1..16} \cup {HexUpper[i] : i \in 1..16}

\* bytes.fromhex: the value of each hex digit, either case.
HexValOf ==
    [c \in HexChars |-> (CHOOSE i \in 1..16 : HexLower[i] = c \/ HexUpper[i] = c) - 1]

IsHex(c) == c \in HexChars

HexVal(c) == HexValOf[c]

\* A mis-parse: a character that is no hex digit reads as 0 instead of
\* raising.
ObjectIdLax(s) ==
    IF Len(s) = OidLen
    THEN << [i \in 1..OidLen |-> IF IsHex(s[i]) THEN HexVal(s[i]) ELSE 0] >>
    ELSE <<>>

\* ObjectId(todo_id): <<oid>>, or <<>> when the constructor raises.
ObjectId(s) ==
    IF Len(s) = OidLen /\ \A i \in 1..OidLen : IsHex(s[i])
    THEN << [i \in 1..OidLen |-> HexVal(s[i])] >>
    ELSE <<>>

\* str(oid): the lower-case hex string.
str_oid(oid) == [i \in 1..OidLen |-> HexLower[oid[i] + 1]]

\* The n-th ObjectId the driver generates.
NewOid(n) ==
    [i \in 1..OidLen |->
        IF i = OidLen THEN n % 16
        ELSE IF i = OidLen - 1 THEN (n \div 16) % 16
        ELSE 0]

\* The identifiers a request path may carry: the string of every id the
\* store generates, one of them in upper case, one a digit short and one
\* with a character that is no hex digit.
GeneratedIds == {str_oid(NewOid(n)) : n \in FirstId..(FirstId + MaxTodos - 1)}

Upper(s) == [i \in 1..Len(s) |->
                IF IsHex(s[i]) THEN HexUpper[HexVal(s[i]) + 1] ELSE s[i]]

ShortId == SubSeq(str_oid(NewOid(FirstId)), 1, OidLen - 1)

NonHexId == [str_oid(NewOid(FirstId)) EXCEPT ![1] = "g"]

PathIds ==
    GeneratedIds \cup {Upper(str_oid(NewOid(FirstId))), ShortId, NonHexId}

\* ObjectId on the identifiers requests carry, as a table.
ObjectIdOf == [s \in PathIds |-> ObjectId(s)]

\* --------------------------------------------------------------- documents
Merge(f, g) ==
    [k \in (DOMAIN f) \cup (DOMAIN g) |-> IF k \in DOMAIN f THEN f[k] ELSE g[k]]

\* dict.get(k): None when the key is absent.
Get(doc, k) == IF k \in DOMAIN doc THEN <<doc[k]>> ELSE <<>>

\* dict.get(k, default)
GetOr(doc, k, default) == IF k \in DOMAIN doc THEN doc[k] ELSE default

\* The copy-paste slip "updated_at": doc.get("created_at").
serialize_todo_copy(doc) ==
    [id         |-> str_oid(doc["_id"]),
     title      |-> GetOr(doc, "title", ""),
     completed  |-> GetOr(doc, "completed", FALSE),
     created_at |-> Get(doc, "created_at"),
     updated_at |-> Get(doc, "created_at")]

serialize_todo(doc) ==
    [id         |-> str_oid(doc["_id"]),
     title      |-> GetOr(doc, "title", ""),
     completed  |-> GetOr(doc, "completed", FALSE),
     created_at |-> Get(doc, "created_at"),
     updated_at |-> Get(doc, "updated_at")]

\* ---------------------------------------------------------- the collection
\* The store is the sequence of the collection's documents in natural
\* (insertion) order.
Ids(st) == {st[i]["_id"] : i \in 1..Len(st)}

Matches(st, oid) == {i \in 1..Len(st) : st[i]["_id"] = oid}

First(S) == CHOOSE i \in S : \A j \in S : i <= j

\* db["todo"].find_one({"_id": oid}): <<doc>>, or <<>> for None.
find_one(st, oid) ==
    IF Matches(st, oid) = {} THEN <<>> ELSE << st[First(Matches(st, oid))] >>

\* update_one(..., upsert=True): a document is inserted when none matches.
update_one_upsert(st, oid, fields) ==
    IF Matches(st, oid) = {}
    THEN [store |-> Append(st, Merge(fields, [k \in {"_id"} |-> oid])),
          matched_count |-> 0]
    ELSE [store |-> [st EXCEPT ![First(Matches(st, oid))] = Merge(fields, @)],
          matched_count |-> 1]

\* replace_one semantics: the document becomes the given fields.
update_one_replace(st, oid, fields) ==
    IF Matches(st, oid) = {}
    THEN [store |-> st, matched_count |-> 0]
    ELSE [store |-> [st EXCEPT ![First(Matches(st, oid))] =
                        Merge(fields, [k \in {"_id"} |-> oid])],
          matched_count |-> 1]

\* db["todo"].update_one({"_id": oid}, {"$set": fields})
update_one(st, oid, fields) ==
    IF Matches(st, oid) = {}
    THEN [store |-> st, matched_count |-> 0]
    ELSE [store |-> [st EXCEPT ![First(Matches(st, oid))] = Merge(fields, @)],
          matched_count |-> 1]

Remove(st, i) == SubSeq(st, 1, i - 1) \o SubSeq(st, i + 1, Len(st))

\* db["todo"].delete_one({"_id": oid})
delete_one(st, oid) ==
    IF Matches(st, oid) = {}
    THEN [store |-> st, deleted_count |-> 0]
    ELSE [store |-> Remove(st, First(Matches(st, oid))), deleted_count |-> 1]

\* Todo(title=payload.title): the schema's defaults.
Todo(title) == [k \in {"title", "completed"} |->
                   IF k = "title" THEN title ELSE FALSE]

\* create_document("todo", todo): stamps created_at and inserts; the store
\* assigns the id.
create_document(st, data, oid, t) ==
    Append(st, Merge([k \in {"_id", "created_at"} |->
                         IF k = "_id" THEN oid ELSE t], data))

\* get_documents("todo", {}, limit=None): every document, natural order.
get_documents(st) == st

\* ------------------------------------------------------------- list_todos
\* docs.sort(key=lambda d: d.get("created_at"), reverse=True) compares the
\* keys with <; None is not comparable (TypeError) and a sort of two or
\* more elements compares every element at least once.
SortRaises(docs) ==
    Len(docs) >= 2 /\ \E i \in 1..Len(docs) : "created_at" \notin DOMAIN docs[i]

Key(d) == d["created_at"]

\* Insert d, which follows every element of sorted in the original order,
\* keeping the order descending and stable.
InsertDesc(sorted, d) ==
    LET before == {i \in 1..Len(sorted) : Key(sorted[i]) >= Key(d)}
        n == Cardinality(before)
    IN SubSeq(sorted, 1, n) \o <<d>> \o SubSeq(sorted, n + 1, Len(sorted))

InsertAsc(sorted, d) ==
    LET before == {i \in 1..Len(sorted) : Key(sorted[i]) <= Key(d)}
        n == Cardinality(before)
    IN SubSeq(sorted, 1, n) \o <<d>> \o SubSeq(sorted, n + 1, Len(sorted))

RECURSIVE SortAsc(_)
\* reverse=True forgotten: oldest first.
SortAsc(docs) ==
    IF Len(docs) <= 1 THEN docs
    ELSE InsertAsc(SortAsc(SubSeq(docs, 1, Len(docs) - 1)), docs[Len(docs)])

RECURSIVE SortDocs(_)
SortDocs(docs) ==
    IF Len(docs) <= 1 THEN docs
    ELSE InsertDesc(SortDocs(SubSeq(docs, 1, Len(docs) - 1)), docs[Len(docs)])

Error(op, status, detail) ==
    [op |-> op, status |-> status, body |-> [detail |-> detail]]

\* The response of GET /api/todos on store st.
ListResponse(st) ==
    LET docs == get_documents(st)
    IN IF SortRaises(docs)
       THEN Error("list", 500, "'<' not supported")
       ELSE [op |-> "list", status |-> 200,
             body |-> [i \in 1..Len(docs) |-> serialize_todo(SortDocs(docs)[i])]]

Idle == resp.op = "none"

list_todos ==
    /\ Idle
    /\ req' = [op |-> "list"]
    /\ resp' = ListResponse(store)
    /\ UNCHANGED <<store, now, nextId, updated, pending>>

\* ------------------------------------------------------------ create_todo
\* find_one() without its filter: the first document of the collection.
create_response_first(st, inserted_id) ==
    IF st = <<>> THEN Error("create", 500, "'NoneType' object has no attribute 'get'")
    ELSE [op |-> "create", status |-> 201, body |-> serialize_todo(st[1])]

\* doc = db["todo"].find_one({"_id": ObjectId(inserted_id)});
\* return serialize_todo(doc).  Any exception becomes a 500.
create_response(st, inserted_id) ==
    LET oid == ObjectIdOf[inserted_id]
        doc == IF oid = <<>> THEN <<>> ELSE find_one(st, oid[1])
    IN IF doc = <<>>
       THEN Error("create", 500, "'NoneType' object has no attribute 'get'")
       ELSE [op |-> "create", status |-> 201, body |-> serialize_todo(doc[1])]

create_todo(title) ==
    /\ Idle
    /\ nextId < FirstId + MaxTodos
    /\ LET oid == NewOid(nextId)
           st == create_document(store, Todo(title), oid, now)
           inserted_id == str_oid(oid)
       IN /\ store' = st
          /\ resp' = create_response(st, inserted_id)
    /\ nextId' = nextId + 1
    /\ req' = [op |-> "create", title |-> title]
    /\ UNCHANGED <<now, updated, pending>>

\* ------------------------------------------------------------ update_todo
\* {k: v for k, v in payload.model_dump(exclude_unset=True).items()
\*  if v is not None}: the payload's domain is the set of fields the caller
\* set, each an optional value.
update_fields(payload) ==
    [k \in {f \in DOMAIN payload : payload[f] # <<>>} |-> payload[k][1]]

\* The check made on the raw payload: a field set to null counts.
NoFieldsUnset(payload) == DOMAIN payload = {}

\* if not update_fields
NoFields(payload) == DOMAIN update_fields(payload) = {}

\* A timestamp taken once, when the module is loaded.
StampStale(fields, t) == Merge([k \in {"updated_at"} |-> 0], fields)

\* update_fields["updated_at"] = datetime.now(timezone.utc)
Stamp(fields, t) == Merge([k \in {"updated_at"} |-> t], fields)

\* doc = db["todo"].find_one({"_id": oid}); return serialize_todo(doc).
\* serialize_todo(None) raises outside any try: the framework answers 500.
reread_response(st, oid) ==
    LET doc == find_one(st, oid)
    IN IF doc = <<>>
       THEN Error("update", 500, "Internal Server Error")
       ELSE [op |-> "update", status |-> 200, body |-> serialize_todo(doc[1])]

\* Lines 69-83: the identifier, the field set, the stamp and the merge.
\* matched is <<oid>> when update_one matched a document; otherwise resp
\* is the error the handler raises.
UpdateMerge(todo_id, payload) ==
    LET parsed == ObjectIdOf[todo_id]
    IN IF parsed = <<>>
       THEN [store |-> store, matched |-> <<>>,
             resp |-> Error("update", 400, "Invalid ID")]
       ELSE IF NoFields(payload)
       THEN [store |-> store, matched |-> <<>>,
             resp |-> Error("update", 400, "No fields to update")]
       ELSE LET res == update_one(store, parsed[1],
                                  Stamp(update_fields(payload), now))
            IN IF res.matched_count = 0
               THEN [store |-> res.store, matched |-> <<>>,
                     resp |-> Error("update", 404, "Todo not found")]
               ELSE [store |-> res.store, matched |-> <<parsed[1]>>,
                     resp |-> [op |-> "none"]]

update_todo(todo_id, payload) ==
    /\ Idle
    /\ \E m \in {UpdateMerge(todo_id, payload)} :
          /\ store' = m.store
          /\ updated' = updated \cup {m.matched[i] : i \in 1..Len(m.matched)}
          /\ resp' = IF m.matched = <<>> THEN m.resp
                     ELSE reread_response(m.store, m.matched[1])
    /\ req' = [op |-> "update", id |-> todo_id, payload |-> payload]
    /\ UNCHANGED <<now, nextId, pending>>

\* ------------------------------------------------------------ delete_todo
delete_todo(todo_id) ==
    /\ Idle
    /\ LET parsed == ObjectIdOf[todo_id]
       IN IF parsed = <<>>
          THEN /\ resp' = Error("delete", 400, "Invalid ID")
               /\ UNCHANGED <<store, updated>>
          ELSE LET res == delete_one(store, parsed[1])
               IN /\ store' = res.store
                  /\ IF res.deleted_count = 0
                     THEN /\ resp' = Error("delete", 404, "Todo not found")
                          /\ UNCHANGED updated
                     ELSE /\ resp' = [op |-> "delete", status |-> 204,
                                      body |-> [ok |-> TRUE]]
                          /\ updated' = updated \ {parsed[1]}
    /\ req' = [op |-> "delete", id |-> todo_id]
    /\ UNCHANGED <<now, nextId, pending>>

\* --------------------------------------------- update_todo, step by step
\* The handler runs in a worker thread: other requests may reach the store
\* between its update_one and its find_one.
update_todo_merge(todo_id, payload) ==
    /\ Idle
    /\ Cardinality(pending) < MaxPending
    /\ \E m \in {UpdateMerge(todo_id, payload)} :
          /\ store' = m.store
          /\ updated' = updated \cup {m.matched[i] : i \in 1..Len(m.matched)}
          /\ resp' = m.resp
          /\ pending' = pending \cup
                {[id |-> todo_id, oid |-> m.matched[i], payload |-> payload] :
                    i \in 1..Len(m.matched)}
          /\ req' = IF m.matched # <<>> THEN [op |-> "none"]
                    ELSE [op |-> "update", id |-> todo_id, payload |-> payload]
    /\ UNCHANGED <<now, nextId>>

update_todo_reread(p) ==
    /\ Idle
    /\ p \in pending
    /\ pending' = pending \ {p}
    /\ resp' = reread_response(store, p.oid)
    /\ req' = [op |-> "update", id |-> p.id, payload |-> p.payload]
    /\ UNCHANGED <<store, now, nextId, updated>>

\* ------------------------------------------------------------------ clock
Tick ==
    /\ Idle
    /\ now < MaxClock
    /\ now' = now + 1
    /\ UNCHANGED <<store, nextId, updated, pending, req, resp>>

\* The framework writes the response; the next request can be observed.
Respond ==
    /\ ~Idle
    /\ req' = [op |-> "none"]
    /\ resp' = [op |-> "none"]
    /\ UNCHANGED <<store, now, nextId, updated, pending>>

\* ----------------------------------------------------------------- inputs
Opt(S) == {<<>>} \cup {<<v>> : v \in S}

EmptyPayload == [k \in {} |-> <<>>]

Payloads ==
    {EmptyPayload}
    \cup {[k \in {"title"} |-> t] : t \in Opt(UpdateTitles)}
    \cup {[k \in {"completed"} |-> c] : c \in Opt(BOOLEAN)}
    \cup {[k \in {"title", "completed"} |-> IF k = "title" THEN t ELSE c] :
             t \in Opt(UpdateTitles), c \in Opt(BOOLEAN)}

\* --------------------------------------------------------- specifications
Init ==
    /\ store = <<>>
    /\ now = 1
    /\ nextId = FirstId
    /\ updated = {}
    /\ pending = {}
    /\ req = [op |-> "none"]
    /\ resp = [op |-> "none"]

Next ==
    \/ list_todos
    \/ \E title \in Titles : create_todo(title)
    \/ \E todo_id \in PathIds, payload \in Payloads : update_todo(todo_id, payload)
    \/ \E todo_id \in PathIds : delete_todo(todo_id)
    \/ Tick
    \/ Respond

Spec == Init /\ [][Next]_vars

\* Requests served concurrently: an update's two store calls are two steps.
NextConc ==
    \/ Next
    \/ \E todo_id \in PathIds, payload \in Payloads :
          update_todo_merge(todo_id, payload)
    \/ \E p \in pending : update_todo_reread(p)

SpecConc == Init /\ [][NextConc]_vars

\* A collection that already holds a document written by another client
\* of the database, with no created_at.
LegacyDoc == [k \in {"_id", "title"} |-> IF k = "_id" THEN NewOid(1) ELSE "A"]

InitLegacy ==
    /\ store = <<LegacyDoc>>
    /\ now = 1
    /\ nextId = FirstId
    /\ updated = {}
    /\ pending = {}
    /\ req = [op |-> "none"]
    /\ resp = [op |-> "none"]

SpecLegacy == InitLegacy /\ [][Next]_vars

\* ------------------------------------------------------------------ claims
\* The path identifiers that are 24 hex digits.
WellFormedIds ==
    {s \in PathIds : Len(s) = OidLen /\ \A i \in 1..Len(s) : s[i] \in HexChars}

WellFormed(s) == s \in WellFormedIds

\* The fields of a payload that carry a value (set, and not null).
Supplied(payload) == {k \in DOMAIN payload : payload[k] # <<>>}

\* The step is a request being served.
Served(ops) == Idle /\ resp'.op \in ops

\* C1: a successful update sets exactly the supplied non-null fields and
\* updated_at on the target; its other fields, its id and created_at, the
\* other documents and their order are unchanged.
C1_UpdateFrame ==
    [][(Served({"update"}) /\ resp'.status = 200) =>
        LET oid == ObjectIdOf[req'.id][1]
            sup == Supplied(req'.payload)
        IN /\ oid \in Ids(store)
           /\ Len(store') = Len(store)
           /\ \A i \in 1..Len(store) :
                 IF store[i]["_id"] # oid
                 THEN store'[i] = store[i]
                 ELSE /\ DOMAIN store'[i] = DOMAIN store[i] \cup sup \cup {"updated_at"}
                      /\ \A k \in sup : store'[i][k] = req'.payload[k][1]
                      /\ store'[i]["updated_at"] = now
                      /\ \A k \in DOMAIN store[i] \ (sup \cup {"updated_at"}) :
                            store'[i][k] = store[i][k]
    ]_vars

\* C1 witness: completed set to true with an explicit null title, on a
\* todo titled "A", beside another todo.
C1_Witness ==
    /\ resp.op = "update" /\ resp.status = 200
    /\ req.payload = [k \in {"title", "completed"} |->
                         IF k = "title" THEN <<>> ELSE <<TRUE>>]
    /\ resp.body.title = "A" /\ resp.body.completed
    /\ Len(store) = 2

\* C2: an update with a well-formed id whose payload supplies no non-null
\* field is answered 400 and changes nothing in the store.
C2_EmptyUpdateRejected ==
    [][(Served({"update"}) /\ WellFormed(req'.id) /\ Supplied(req'.payload) = {}) =>
        /\ resp'.status = 400
        /\ store' = store
    ]_vars

\* C2 witness: {"title": null} sent to the id of a stored todo.
C2_Witness ==
    /\ resp.op = "update" /\ resp.status = 400
    /\ req.payload = [k \in {"title"} |-> <<>>]
    /\ WellFormed(req.id)
    /\ ObjectIdOf[req.id][1] \in Ids(store)

Nonincreasing(body) ==
    \A i, j \in 1..Len(body) :
        i < j => body[i].created_at[1] >= body[j].created_at[1]

C4_MalformedIdFirst ==
    [][(Served({"update", "delete"}) /\ ~WellFormed(req'.id)) =>
        /\ resp'.status = 400
        /\ resp'.body.detail = "Invalid ID"
        /\ store' = store
    ]_vars

\* C4 witness: an update with a malformed id and an empty payload.
C4_Witness ==
    /\ resp.op = "update" /\ resp.status = 400
    /\ resp.body.detail = "Invalid ID"
    /\ req.id = NonHexId
    /\ req.payload = EmptyPayload
    /\ store # <<>>

\* C5: update (with a non-empty field set) or delete on a well-formed id
\* that matches no stored todo is answered 404 and changes nothing.
C5_NotFound ==
    [][(/\ Served({"update", "delete"})
        /\ WellFormed(req'.id)
        /\ ObjectIdOf[req'.id][1] \notin Ids(store)
        /\ (resp'.op = "update" => Supplied(req'.payload) # {})) =>
        /\ resp'.status = 404
        /\ store' = store
    ]_vars

\* C5 witness: a delete of the id of a todo that was deleted before.
C5_Witness ==
    /\ resp.op = "delete" /\ resp.status = 404
    /\ \E n \in FirstId..(nextId - 1) : ObjectIdOf[req.id][1] = NewOid(n)

C7_CreateAddsOne ==
    [][Served({"create"}) =>
        /\ resp'.status = 201
        /\ Len(store') = Len(store) + 1
        /\ SubSeq(store', 1, Len(store)) = store
        /\ LET d == store'[Len(store')]
           IN /\ d["_id"] \notin Ids(store)
              /\ DOMAIN d = {"_id", "title", "completed", "created_at"}
              /\ d["title"] = req'.title
              /\ d["completed"] = FALSE
              /\ d["created_at"] = now
              /\ store = <<>> =>
                    \A r \in {ListResponse(store')} :
                       /\ r.status = 200
                       /\ r.body =
                             << [id |-> str_oid(d["_id"]), title |-> req'.title,
                                 completed |-> FALSE, created_at |-> <<now>>,
                                 updated_at |-> <<>>] >>
    ]_vars

\* C7 witness: a create with the empty title beside an existing todo.
C7_Witness ==
    /\ resp.op = "create" /\ resp.status = 201
    /\ req.title = ""
    /\ Len(store) = 2

\* C8: the todo create returns is the serialization of the created todo
\* as a list reads it back from the store.
C8_CreateRoundTrip ==
    resp.op = "create" =>
        /\ resp.status = 201
        /\ resp.body.id = str_oid(NewOid(nextId - 1))
        /\ \A r \in {ListResponse(store)} :
              /\ r.status = 200
              /\ \E i \in 1..Len(r.body) :
                    r.body[i].id = resp.body.id /\ r.body[i] = resp.body

\* C8 witness: a create into a store that held a todo already.
C8_Witness ==
    /\ resp.op = "create" /\ resp.status = 201
    /\ Len(store) = 2
    /\ resp.body.title = "A"

\* C9: list answers 200 with every document, those without created_at
\* after those with one.
C9_ListAbsentCreatedAt ==
    resp.op = "list" =>
        /\ resp.status = 200
        /\ Len(resp.body) = Len(store)
        /\ \A i, j \in 1..Len(resp.body) :
              (i < j /\ resp.body[i].created_at = <<>>) =>
                  resp.body[j].created_at = <<>>

\* C10: an update whose merge matched answers 200 with the target id and,
\* for each field the request supplied, the value it supplied.
C10_UpdateReturnsOwnWrite ==
    (resp.op = "update" /\ resp.status \notin {400, 404}) =>
        /\ resp.status = 200
        /\ resp.body.id = str_oid(ObjectIdOf[req.id][1])
        /\ \A k \in Supplied(req.payload) :
              IF k = "title" THEN resp.body.title = req.payload[k][1]
              ELSE resp.body.completed = req.payload[k][1]

====
